---- MODULE Spec2Model ----
(***************************************************************************)
(* Model of the Headline Translator & Slugify bot (src/main.py).           *)
(*                                                                         *)
(* A Python str is a sequence of one-character strings; a character of     *)
(* more than one letter ("TAB", "U0130", "U0307") names a code point.      *)
(* A Python dict is a function whose DOMAIN is the set of its keys.        *)
(*                                                                         *)
(* Handlers are coroutines on one asyncio event loop.  A handler is cut    *)
(* into steps where it awaits something other handlers can run during; the *)
(* only such place with reads of the store before it and writes after it   *)
(* is the await of translate_and_format in handle_message (line 96), so    *)
(* handle_message is two steps and every other handler one.  Whether the   *)
(* provider call yields to the loop is the translator library's business:  *)
(* the model lets other handlers run there, which covers both.             *)
(*                                                                         *)
(* A callback query may arrive in any state: the buttons of earlier        *)
(* messages stay in the chat, also across a restart of the bot, which      *)
(* empties user_data.                                                      *)
(***************************************************************************)
EXTENDS Integers, Sequences, FiniteSets, TLC

VARIABLES
    user_data,       \* line 35: user id -> session dict
    conversations,   \* the ConversationHandler's state per user (lines 189-195)
    inflight,        \* per user: handle_message calls suspended at line 96
    reply,           \* what the last processed update made the bot send
    norm             \* the run of translate_and_format's slug steps on one input

vars == <<user_data, conversations, inflight, reply, norm>>

----------------------------------------------------------------------------
(* Bounds of the model *)

\* longest history a session grows to in Spec
MaxHistory == 2
\* longest history a session grows to in SpecConv
MaxConvHistory == 1
\* longest history a session grows to in SpecHist (more than the five shown)
MaxLongHistory == 6
\* handle_message calls of one user suspended at the same time
MaxInflight == 1
\* longest translated text given to the slug steps in SpecNormalize
MaxLen == 3

----------------------------------------------------------------------------
(* Strings *)

Dash == <<"-">>
Underscore == <<"_">>

\* the characters texts are drawn from: ASCII upper and lower case letters, a
\* digit, the space, a tab, the two separators, punctuation, U+0130 (capital I
\* with dot above, whose lower case is two code points) and U+0307 (combining
\* dot above)
Chars == {"A", "a", "i", "1", " ", "TAB", "-", "_", "!", "U0130", "U0307"}

AsciiUpper == {"A", "H", "W"}
AsciiLower == {"a", "b", "d", "e", "h", "i", "l", "o", "r", "w", "x"}
AsciiDigit == {"1"}
Whitespace == {" ", "TAB"}

RECURSIVE Concat(_)
\* the concatenation of a sequence of strings
Concat(ss) ==
    IF ss = <<>> THEN <<>> ELSE Head(ss) \o Concat(Tail(ss))

RECURSIVE LStrip(_)
LStrip(s) ==
    IF s # <<>> /\ Head(s) \in Whitespace THEN LStrip(Tail(s)) ELSE s

RECURSIVE RStrip(_)
RStrip(s) ==
    IF s # <<>> /\ s[Len(s)] \in Whitespace
    THEN RStrip(SubSeq(s, 1, Len(s) - 1))
    ELSE s

\* a strip of the leading whitespace only
StripLeading(s) == LStrip(s)

\* str.strip(): leading and trailing whitespace removed
Strip(s) == RStrip(LStrip(s))

\* the lower case of one character, as str.lower() maps it
LowerChar(c) ==
    CASE c = "A" -> <<"a">>
      [] c = "H" -> <<"h">>
      [] c = "W" -> <<"w">>
      [] c = "U0130" -> <<"i", "U0307">>
      [] OTHER -> <<c>>

\* a text left in the case it came in
KeepCase(s) == s

\* str.lower()
Lower(s) == Concat([i \in 1..Len(s) |-> LowerChar(s[i])])

\* str.replace(" ", separator): every space becomes the separator string
ReplaceSpaces(s, separator) ==
    Concat([i \in 1..Len(s) |-> IF s[i] = " " THEN separator ELSE <<s[i]>>])

\* the characters the pattern [^a-zA-Z0-9\-_] does not match
Kept(c) == c \in AsciiLower \cup AsciiUpper \cup AsciiDigit \cup {"-", "_"}

RECURSIVE DropFirst(_)
\* a substitution that stops after its first match
DropFirst(s) ==
    IF s = <<>> THEN <<>>
    ELSE IF Kept(Head(s)) THEN <<Head(s)>> \o DropFirst(Tail(s))
    ELSE Tail(s)

\* re.sub(r"[^a-zA-Z0-9\-_]", "", s): every matching character removed
StripDisallowed(s) == SelectSeq(s, Kept)

\* the slug steps with the substitution run before the replacement
StripThenReplace(translated_text, separator) ==
    ReplaceSpaces(StripDisallowed(Lower(translated_text)), separator)

\* the slug steps of translate_and_format on a translated text
Slugify(translated_text, separator) ==
    StripDisallowed(ReplaceSpaces(Lower(translated_text), separator))

----------------------------------------------------------------------------
(* The session store and the inputs *)

\* the user ids told apart (update.effective_user.id)
Users == {10, 20}

\* line 32 and ConversationHandler.END; IDLE is a user with no conversation
IDLE == "IDLE"
AWAITING_SEPARATOR == "AWAITING_SEPARATOR"
END == "END"
None == "None"

\* how many history items /history shows (the slice [-5:])
HistoryShown == 5

\* {"separator": "-"}: the session lines 93 and 151 store
DefaultSession == [separator |-> Dash]

\* d[k] = v on a dict
Put(d, k, v) == (k :> v) @@ d

\* the history list of a user, empty where the session or the key is missing
HistoryOf(u) ==
    IF u \in DOMAIN user_data /\ "history" \in DOMAIN user_data[u]
    THEN user_data[u].history
    ELSE <<>>

\* the commands a user sends
Commands == {"start", "help", "settings", "history", "cancel"}

\* the callback_data of the inline buttons (lines 66, 67, 105, 106, 108)
CallbackData ==
    {"retranslate", "customize", "copy_slug", "change_separator", "reset_preferences"}

\* the text messages sent as headlines
MsgTexts == {<<"_">>}

\* the text messages sent in answer to the separator prompt
SepTexts == {<<"-">>, <<"_">>, <<" ">>, <<"-", "-">>, <<"x">>, <<" ", "_", " ">>}

\* the texts the translation provider returns
TranslatedTexts == {<<"A", " ", "b", "!">>, <<"U0130", "1">>}

Text(t) == [type |-> "text", data |-> t]
Command(c) == [type |-> "command", data |-> c]
CallbackQuery(d) == [type |-> "callback_query", data |-> d]

\* the outcome of processing an update: the message sent to the user (kind
\* "none": nothing was sent; kind "KeyError": the handler raised it)
Reply(u, kind) ==
    [to |-> u, kind |-> kind, original |-> <<>>, text |-> <<>>, items |-> <<>>]

----------------------------------------------------------------------------
(* The dispatcher: Application.process_update over the handlers of one group *)

\* conv_handler, lines 189-195
conv_handler ==
    [entry_points |->
        <<[kind |-> "CallbackQueryHandler",
           arg |-> {"customize", "change_separator"},
           callback |-> "button_callback"]>>,
     states |->
        <<[kind |-> "MessageHandler", arg |-> {}, callback |-> "set_separator"]>>,
     fallbacks |->
        <<[kind |-> "CommandHandler", arg |-> {"cancel"}, callback |-> "cancel"]>>]

\* the handlers in the order main() adds them, all to group 0
main ==
    <<[kind |-> "CommandHandler", arg |-> {"start"}, callback |-> "start"],
      [kind |-> "CommandHandler", arg |-> {"help"}, callback |-> "help_command"],
      [kind |-> "CommandHandler", arg |-> {"settings"}, callback |-> "settings"],
      [kind |-> "CommandHandler", arg |-> {"history"}, callback |-> "history"],
      [kind |-> "MessageHandler", arg |-> {}, callback |-> "handle_message"],
      [kind |-> "CallbackQueryHandler", arg |-> CallbackData,
       callback |-> "button_callback"],
      [kind |-> "ConversationHandler", arg |-> {}, callback |-> "conv_handler"]>>

\* conv_handler alone in front of the other handlers: every update reaches it
conv_first ==
    <<main[7]>> \o SubSeq(main, 1, 6)

\* check_update of a command, message or callback query handler
Matches(h, upd) ==
    CASE h.kind = "CommandHandler" -> upd.type = "command" /\ upd.data \in h.arg
      [] h.kind = "MessageHandler" -> upd.type = "text"
      [] h.kind = "CallbackQueryHandler" ->
            upd.type = "callback_query" /\ upd.data \in h.arg
      [] OTHER -> FALSE

\* the callback of the first handler of hs that takes upd, "none" if none does
FirstMatch(hs, upd) ==
    LET hits == {i \in 1..Len(hs) : Matches(hs[i], upd)}
    IN  IF hits = {} THEN "none"
        ELSE hs[CHOOSE i \in hits : \A j \in hits : i <= j].callback

\* ConversationHandler.check_update: with no conversation the entry points;
\* in a state that state's handlers, then the fallbacks
ConvCheck(upd, state) ==
    IF state = IDLE THEN FirstMatch(conv_handler.entry_points, upd)
    ELSE IF FirstMatch(conv_handler.states, upd) # "none"
         THEN FirstMatch(conv_handler.states, upd)
         ELSE FirstMatch(conv_handler.fallbacks, upd)

\* whether handler h takes upd
Takes(h, upd, state) ==
    IF h.kind = "ConversationHandler" THEN ConvCheck(upd, state) # "none"
    ELSE Matches(h, upd)

\* process_update: the first handler of the group that takes the update
\* handles it and no other does; in_conv says it ran inside conv_handler
Route(hs, upd, state) ==
    LET hits == {i \in 1..Len(hs) : Takes(hs[i], upd, state)}
        first == CHOOSE i \in hits : \A j \in hits : i <= j
    IN  IF hits = {} THEN [callback |-> "none", in_conv |-> FALSE]
        ELSE IF hs[first].kind = "ConversationHandler"
             THEN [callback |-> ConvCheck(upd, state), in_conv |-> TRUE]
             ELSE [callback |-> hs[first].callback, in_conv |-> FALSE]

\* a dispatcher that moves the conversation by the return value of any
\* handler, a return of None ending it
ConvAfterAnyHandler(u, in_conv, rv) ==
    [conversations EXCEPT ![u] = IF rv \in {None, END} THEN IDLE ELSE rv]

\* ConversationHandler.handle_update: the state a callback's return value
\* leaves the user's conversation in (None keeps it, END ends it)
ConvAfter(u, in_conv, rv) ==
    IF in_conv /\ rv # None
    THEN [conversations EXCEPT ![u] = IF rv = END THEN IDLE ELSE rv]
    ELSE conversations

----------------------------------------------------------------------------
(* The handlers.  in_conv: the handler runs inside conv_handler, which then  *)
(* moves the user's conversation by the return value.                        *)

\* a handler that makes sure of the user's session before it sends
SendsAfterCreating(u, kind, in_conv, rv) ==
    /\ reply' = Reply(u, kind)
    /\ conversations' = ConvAfter(u, in_conv, rv)
    /\ user_data' = IF u \in DOMAIN user_data THEN user_data
                    ELSE Put(user_data, u, DefaultSession)
    /\ UNCHANGED <<inflight, norm>>

\* what a handler that only sends a message does
Sends(u, kind, in_conv, rv) ==
    /\ reply' = Reply(u, kind)
    /\ conversations' = ConvAfter(u, in_conv, rv)
    /\ UNCHANGED <<user_data, inflight, norm>>

\* lines 37-47
start(u) == Sends(u, "welcome", FALSE, None)

\* lines 49-61
help_command(u) == Sends(u, "help", FALSE, None)

\* lines 63-72
settings(u) == Sends(u, "settings", FALSE, None)

\* a slice that shows the first items instead of the last
FirstItems(h, n) ==
    SubSeq(h, 1, IF Len(h) < n THEN Len(h) ELSE n)

\* h[-n:]: the last n items of h, all of them when there are fewer
LastItems(h, n) ==
    SubSeq(h, IF Len(h) > n THEN Len(h) - n + 1 ELSE 1, Len(h))

\* lines 74-85
history(u) ==
    /\ reply' =
          IF u \notin DOMAIN user_data \/ "history" \notin DOMAIN user_data[u]
          THEN Reply(u, "no_history")
          ELSE [Reply(u, "history") EXCEPT
                    !.items = LastItems(user_data[u].history, HistoryShown)]
    /\ UNCHANGED <<user_data, conversations, inflight, norm>>

\* a store that gets a fresh session with every message
AlwaysCreated(u) == Put(user_data, u, DefaultSession)

\* lines 92-93: the session is created only if the user has none
GetOrCreate(u) ==
    IF u \notin DOMAIN user_data
    THEN Put(user_data, u, DefaultSession)
    ELSE user_data

\* lines 87-96, up to the await of translate_and_format: the session is
\* created if missing and the separator read.  cap bounds the history and
\* the calls of one user suspended at the same time.
handle_message(u, text, cap) ==
    /\ Len(inflight[u]) < cap.calls
    /\ Len(HistoryOf(u)) + Len(inflight[u]) < cap.history
    /\ user_data' = GetOrCreate(u)
    /\ inflight' =
          [inflight EXCEPT ![u] =
              Append(@, [headline |-> Strip(text),
                         separator |-> user_data'[u].separator,
                         created |-> u \notin DOMAIN user_data])]
    /\ reply' = Reply(u, "none")
    /\ UNCHANGED <<conversations, norm>>

\* s without its i-th element
Remove(s, i) == SubSeq(s, 1, i - 1) \o SubSeq(s, i + 1, Len(s))

\* a history list created anew for every item
Overwritten(session, item) == [history |-> <<item>>] @@ session

\* lines 99-101: the history list created if missing, the item appended
Appended(session, item) ==
    [history |-> Append(IF "history" \in DOMAIN session
                        THEN session.history ELSE <<>>, item)] @@ session

\* lines 122-128 and 97-117: the provider returned translated_text to the
\* i-th suspended call of u; the slug is stored and sent
translate_and_format(u, i, translated_text) ==
    /\ i \in DOMAIN inflight[u]
    /\ LET call == inflight[u][i]
           formatted_headline == Slugify(translated_text, call.separator)
       IN  /\ user_data' =
                 [user_data EXCEPT ![u] =
                     Appended(@, [original |-> call.headline,
                                  slug |-> formatted_headline])]
           /\ reply' = [Reply(u, "slug") EXCEPT
                            !.original = call.headline,
                            !.text = formatted_headline]
    /\ inflight' = [inflight EXCEPT ![u] = Remove(@, i)]
    /\ UNCHANGED <<conversations, norm>>

\* what the except branch would store if it recorded the failed headline
FailureStored(session, headline) ==
    Appended(session, [original |-> headline, slug |-> <<>>])

\* what lines 118-120 leave of the session: it is not touched
FailureKeeps(session, headline) == session

\* lines 129-131 and 118-120: the provider failed for the i-th suspended
\* call of u; the error is logged and the generic message sent
translate_error(u, i) ==
    /\ i \in DOMAIN inflight[u]
    /\ user_data' =
          [user_data EXCEPT ![u] = FailureKeeps(@, inflight[u][i].headline)]
    /\ reply' = Reply(u, "error")
    /\ inflight' = [inflight EXCEPT ![u] = Remove(@, i)]
    /\ UNCHANGED <<conversations, norm>>

\* a reset that clears the whole store
ResetAll(u) == (u :> DefaultSession)

\* line 151: user_data[user_id] = {"separator": "-"}
ResetSession(u) == Put(user_data, u, DefaultSession)

\* lines 133-152
button_callback(u, data, in_conv) ==
    CASE data = "retranslate" -> Sends(u, "send_again", in_conv, None)
      [] data = "customize" ->
            Sends(u, "send_separator", in_conv, AWAITING_SEPARATOR)
      [] data = "copy_slug" -> Sends(u, "copied", in_conv, None)
      [] data = "change_separator" ->
            Sends(u, "enter_separator", in_conv, AWAITING_SEPARATOR)
      [] data = "reset_preferences" ->
            /\ user_data' = ResetSession(u)
            /\ reply' = Reply(u, "reset_done")
            /\ conversations' = ConvAfter(u, in_conv, None)
            /\ UNCHANGED <<inflight, norm>>
      [] OTHER -> Sends(u, "none", in_conv, None)

\* a check that looks at the length only
AnyOneCharacter(new_separator) == Len(new_separator) = 1

\* line 159: exactly one character, "-" or "_"
ValidSeparator(new_separator) ==
    ~(Len(new_separator) # 1 \/ new_separator \notin {Dash, Underscore})

\* lines 154-165.  Line 163 raises KeyError for a user with no session: the
\* exception leaves the handler, nothing is sent and conv_handler keeps the
\* conversation where it was.
set_separator(u, text, in_conv) ==
    LET new_separator == Strip(text)
    IN  IF ~ValidSeparator(new_separator)
        THEN Sends(u, "invalid_separator", in_conv, AWAITING_SEPARATOR)
        ELSE IF u \notin DOMAIN user_data
        THEN /\ reply' = Reply(u, "KeyError")
             /\ UNCHANGED <<user_data, conversations, inflight, norm>>
        ELSE /\ user_data' =
                   [user_data EXCEPT ![u] =
                       [separator |-> new_separator] @@ @]
             /\ reply' = [Reply(u, "separator_set") EXCEPT !.text = new_separator]
             /\ conversations' = ConvAfter(u, in_conv, END)
             /\ UNCHANGED <<inflight, norm>>

\* lines 167-170
cancel(u, in_conv) == Sends(u, "cancelled", in_conv, END)

\* process_update for one update of user u under the handlers hs
Deliver(hs, cap, u, upd) ==
    \E r \in {Route(hs, upd, conversations[u])} :
        CASE r.callback = "start" -> start(u)
          [] r.callback = "help_command" -> help_command(u)
          [] r.callback = "settings" -> settings(u)
          [] r.callback = "history" -> history(u)
          [] r.callback = "handle_message" -> handle_message(u, upd.data, cap)
          [] r.callback = "button_callback" ->
                button_callback(u, upd.data, r.in_conv)
          [] r.callback = "set_separator" ->
                set_separator(u, upd.data, r.in_conv)
          [] r.callback = "cancel" -> cancel(u, r.in_conv)
          [] OTHER -> Sends(u, "none", FALSE, None)

----------------------------------------------------------------------------
(* The bot as main() builds it *)

NormIdle == [stage |-> "idle", text |-> <<>>, separator |-> <<>>,
             slug |-> <<>>, again |-> <<>>]

Init ==
    /\ user_data = <<>>
    /\ conversations = [u \in Users |-> IDLE]
    /\ inflight = [u \in Users |-> <<>>]
    /\ reply = Reply(0, "none")
    /\ norm = NormIdle

Updates ==
    {Text(t) : t \in MsgTexts} \cup {Command(c) : c \in Commands}
        \cup {CallbackQuery(d) : d \in CallbackData}

Update(u, upd) ==
    Deliver(main, [history |-> MaxHistory, calls |-> MaxInflight], u, upd)

Next ==
    \/ \E u \in Users, upd \in Updates : Update(u, upd)
    \/ \E u \in Users, i \in 1..MaxInflight, t \in TranslatedTexts :
          translate_and_format(u, i, t)
    \/ \E u \in Users, i \in 1..MaxInflight : translate_error(u, i)

Spec == Init /\ [][Next]_vars

----------------------------------------------------------------------------
(* The handlers with conv_handler in front: the conversation of lines      *)
(* 189-195 as it is declared, reached by every update.  The inputs are the *)
(* ones the conversation is about: a text sent while the separator is      *)
(* awaited is drawn from SepTexts, the commands are /settings, /history    *)
(* and /cancel, the provider returns one text.                             *)

ConvCommands == {"settings", "history", "cancel"}

ConvTranslatedTexts == {<<"A", " ", "b", "!">>}

ConvUpdates(u) ==
    {Text(t) : t \in IF conversations[u] = AWAITING_SEPARATOR
                     THEN SepTexts ELSE MsgTexts}
        \cup {Command(c) : c \in ConvCommands}
        \cup {CallbackQuery(d) : d \in CallbackData}

ConvUpdate(u, upd) ==
    Deliver(conv_first, [history |-> MaxConvHistory, calls |-> MaxInflight],
            u, upd)

NextConv ==
    \/ \E u \in Users : \E upd \in ConvUpdates(u) : ConvUpdate(u, upd)
    \/ \E u \in Users, i \in 1..MaxInflight, t \in ConvTranslatedTexts :
          translate_and_format(u, i, t)
    \/ \E u \in Users, i \in 1..MaxInflight : translate_error(u, i)

SpecConv == Init /\ [][NextConv]_vars

----------------------------------------------------------------------------
(* One user's history grown past the five items /history shows *)

HistUser == CHOOSE u \in Users : TRUE

HistUpdates ==
    {Text(t) : t \in MsgTexts}
        \cup {Command("history"), CallbackQuery("reset_preferences")}

HistUpdate(upd) ==
    Deliver(main, [history |-> MaxLongHistory, calls |-> MaxInflight],
            HistUser, upd)

NextHist ==
    \/ \E upd \in HistUpdates : HistUpdate(upd)
    \/ \E i \in 1..MaxInflight, t \in TranslatedTexts :
          translate_and_format(HistUser, i, t)
    \/ \E i \in 1..MaxInflight : translate_error(HistUser, i)

SpecHist == Init /\ [][NextHist]_vars

----------------------------------------------------------------------------
(* One user whose text messages overlap: up to MaxCalls calls of             *)
(* handle_message are suspended at line 96 at the same time, conv_handler    *)
(* is registered first so that the stored separator can change in between.   *)

MaxCalls == 2
MaxCallHistory == 3

CallUser == 10

\* the separators a session can hold
Separators == {Dash, Underscore}

\* headlines: one as sent, one with whitespace around it
HeadlineTexts == {<<"_">>, <<" ", "x", "TAB">>}

CallUpdates ==
    IF conversations[CallUser] = AWAITING_SEPARATOR
    THEN {Text(t) : t \in Separators}
    ELSE {Text(t) : t \in HeadlineTexts} \cup {CallbackQuery("customize")}

CallUpdate(upd) ==
    Deliver(conv_first, [history |-> MaxCallHistory, calls |-> MaxCalls],
            CallUser, upd)

NextCalls ==
    \/ \E upd \in CallUpdates : CallUpdate(upd)
    \/ \E i \in 1..MaxCalls, t \in ConvTranslatedTexts :
          translate_and_format(CallUser, i, t)
    \/ \E i \in 1..MaxCalls : translate_error(CallUser, i)

SpecCalls == Init /\ [][NextCalls]_vars

----------------------------------------------------------------------------
(* The slug steps of translate_and_format (lines 126-128) on every text of *)
(* up to MaxLen characters and every separator a session holds             *)

Texts == UNION {[1..n -> Chars] : n \in 0..MaxLen}

\* "Hello, World!!" and a text with two adjacent spaces
HelloWorld ==
    <<"H", "e", "l", "l", "o", ",", " ", "W", "o", "r", "l", "d", "!", "!">>
TwoSpaces == <<"a", " ", " ", "b">>

InitNormalize ==
    /\ user_data = <<>>
    /\ conversations = [u \in Users |-> IDLE]
    /\ inflight = [u \in Users |-> <<>>]
    /\ reply = Reply(0, "none")
    /\ norm \in {[stage |-> "translated", text |-> t, separator |-> sep,
                  slug |-> <<>>, again |-> <<>>] :
                    t \in Texts \cup {HelloWorld, TwoSpaces},
                    sep \in Separators}

\* lines 126-128 on the translated text
slugify ==
    /\ norm.stage = "translated"
    /\ norm' = [norm EXCEPT !.stage = "slugified",
                            !.slug = Slugify(norm.text, norm.separator)]
    /\ UNCHANGED <<user_data, conversations, inflight, reply>>

\* lines 126-128 on their own result
slugify_again ==
    /\ norm.stage = "slugified"
    /\ norm' = [norm EXCEPT !.stage = "again",
                            !.again = Slugify(norm.slug, norm.separator)]
    /\ UNCHANGED <<user_data, conversations, inflight, reply>>

NextNormalize == slugify \/ slugify_again

SpecNormalize == InitNormalize /\ [][NextNormalize]_vars

----------------------------------------------------------------------------
(* Claims *)

\* the session of u is what it was: present or absent as before, equal if present
SessionKept(u) ==
    /\ (u \in DOMAIN user_data') = (u \in DOMAIN user_data)
    /\ u \in DOMAIN user_data => user_data'[u] = user_data[u]

\* C1: for a user whose conversation is IDLE, pressing "customize" moves the
\* conversation to AWAITING_SEPARATOR, and the text "_" sent then moves it back
\* to IDLE with the user's stored separator equal to "_", under the handlers
\* as main() registers them.
C1_CustomizeThenUnderscore ==
    [][\A u \in Users :
          /\ (conversations[u] = IDLE /\ Update(u, CallbackQuery("customize")))
                => conversations'[u] = AWAITING_SEPARATOR
          /\ (reply = Reply(u, "send_separator") /\ Update(u, Text(Underscore)))
                => /\ conversations'[u] = IDLE
                   /\ u \in DOMAIN user_data'
                   /\ user_data'[u].separator = Underscore]_vars

\* C2: in every reachable state every session of the store has a separator
\* of exactly one character, "-" or "_".
C2_SeparatorInvariant ==
    \A u \in DOMAIN user_data :
        /\ Len(user_data[u].separator) = 1
        /\ user_data[u].separator[1] \in {"-", "_"}

\* C2 witness: both users hold a session, one stored by set_separator, one
\* written by reset_preferences after a headline was slugged
C2_Witness ==
    \E a, b \in DOMAIN user_data :
        /\ a # b
        /\ user_data[a].separator = Underscore
        /\ "history" \in DOMAIN user_data[a]
        /\ reply = Reply(b, "reset_done")

\* C3: while a user is in AWAITING_SEPARATOR, set_separator with "-" or "_"
\* stores it and ends the conversation in IDLE; with any other text ("", "--",
\* "x") the stored separator is left intact, an error reply is sent and the
\* conversation stays in AWAITING_SEPARATOR.
C3_SetSeparatorValidates ==
    [][\A u \in Users, t \in SepTexts :
          (conversations[u] = AWAITING_SEPARATOR /\ ConvUpdate(u, Text(t)))
             => IF Strip(t) \in {Dash, Underscore}
                THEN /\ u \in DOMAIN user_data'
                     /\ user_data'[u].separator = Strip(t)
                     /\ conversations'[u] = IDLE
                ELSE /\ SessionKept(u)
                     /\ reply' = Reply(u, "invalid_separator")
                     /\ conversations'[u] = AWAITING_SEPARATOR]_vars

\* C4: for a user whose conversation is IDLE, pressing "customize" and then
\* sending /cancel returns the conversation to IDLE, the cancellation is
\* acknowledged with a reply, and the user's separator and history are what
\* they were before the button press.
C4_CustomizeThenCancel ==
    [][\A u \in Users :
          /\ (conversations[u] = IDLE /\ Update(u, CallbackQuery("customize")))
                => SessionKept(u)
          /\ (reply = Reply(u, "send_separator") /\ Update(u, Command("cancel")))
                => /\ conversations'[u] = IDLE
                   /\ reply' = Reply(u, "cancelled")
                   /\ SessionKept(u)]_vars

\* C5 as claimed: when the provider fails for a text message of any user, new
\* or existing, the handler replies with the generic error text, appends
\* nothing to the history, changes no separator, and the user's session is
\* the same as before the message arrived (a user who had none has none).
C5_FailureLeavesNoTrace ==
    [][\A u \in Users, i \in 1..MaxInflight :
          translate_error(u, i)
             => /\ reply' = Reply(u, "error")
                /\ SessionKept(u)
                /\ inflight[u][i].created => u \notin DOMAIN user_data']_vars

\* C5 as amended: the arrival of a text message leaves an existing session as
\* it is and gives a user without one the session {"separator": "-"}; when the
\* provider then fails the handler replies with the generic error text and the
\* store is left as it is: nothing is appended, no separator changes.
C5_FailureKeepsSession ==
    [][\A u \in Users :
          /\ \A t \in MsgTexts :
                Update(u, Text(t))
                   => IF u \in DOMAIN user_data
                      THEN user_data' = user_data
                      ELSE /\ DOMAIN user_data' = DOMAIN user_data \cup {u}
                           /\ user_data'[u] = [separator |-> Dash]
                           /\ \A v \in DOMAIN user_data :
                                 user_data'[v] = user_data[v]
          /\ \A i \in 1..MaxInflight :
                translate_error(u, i)
                   => /\ reply' = Reply(u, "error")
                      /\ user_data' = user_data]_vars

\* C5 witness: the provider failed for the first message of a new user
C5_Witness ==
    \E u \in DOMAIN user_data :
        /\ reply = Reply(u, "error")
        /\ "history" \notin DOMAIN user_data[u]
        /\ inflight[u] = <<>>

\* C6: for distinct users A and B and any interleaving of their handler
\* steps, no step run for A (message, set_separator, reset_preferences,
\* failed translation) changes B's stored separator or B's history.  Every
\* step is a step of a handler run for one user, the one its outcome goes
\* to (reply'.to): it leaves the session of every other user as it was.
C6_SessionIsolation ==
    [][\A b \in Users : b # reply'.to => SessionKept(b)]_vars

\* C6 witness: B's separator was set while A's handle_message is suspended
\* on the translation, and the two sessions differ
C6_Witness ==
    \E a, b \in DOMAIN user_data :
        /\ a # b
        /\ inflight[a] # <<>>
        /\ reply.kind = "separator_set" /\ reply.to = b
        /\ user_data[a].separator # user_data[b].separator
        /\ HistoryOf(b) # <<>>

\* C7: after a user presses reset_preferences that user's separator is "-"
\* and that user's history is the sequence it was before the press.
C7_ResetKeepsHistory ==
    [][\A u \in Users :
          Update(u, CallbackQuery("reset_preferences"))
             => /\ user_data'[u].separator = Dash
                /\ HistoryOf(u)' = HistoryOf(u)]_vars

\* C8: a user's history is the sequence of the successfully processed
\* messages in the order they were appended: a step either leaves it, or
\* (a slug was sent) adds that message's item after the ones already there,
\* or (reset_preferences) drops it; and /history shows the most recent five
\* items, or all when there are fewer, oldest of those first.
C8_HistoryOrder ==
    [][LET h == HistoryOf(HistUser)
           after == HistoryOf(HistUser)'
       IN  /\ \/ after = h
              \/ /\ reply'.kind = "slug"
                 /\ Len(after) = Len(h) + 1
                 /\ \A k \in 1..Len(h) : after[k] = h[k]
                 /\ after[Len(after)] =
                       [original |-> reply'.original, slug |-> reply'.text]
              \/ /\ reply'.kind = "reset_done"
                 /\ after = <<>>
           /\ HistUpdate(Command("history")) =>
                 LET n == IF Len(h) < HistoryShown THEN Len(h) ELSE HistoryShown
                 IN  IF n = 0 THEN reply'.kind = "no_history"
                     ELSE /\ reply'.kind = "history"
                          /\ Len(reply'.items) = n
                          /\ \A k \in 1..n :
                                reply'.items[k] = h[Len(h) - n + k]]_vars

\* C8 witness: /history answered with five items of a longer history whose
\* oldest item is not among them
C8_Witness ==
    /\ reply.kind = "history"
    /\ Len(HistoryOf(HistUser)) > HistoryShown
    /\ Len(reply.items) = HistoryShown
    /\ reply.items[1] # HistoryOf(HistUser)[1]
    /\ reply.items[1] # reply.items[HistoryShown]

\* the characters a slug may hold
SlugChars == AsciiLower \cup AsciiDigit \cup {"-", "_"}

\* C9: for every translated text and every separator passed to the slug
\* steps, every character of the slug is an ASCII lower-case letter, an
\* ASCII digit, "-" or "_".
C9_SlugAlphabet ==
    norm.stage \in {"slugified", "again"}
       => \A k \in 1..Len(norm.slug) : norm.slug[k] \in SlugChars

\* C9 witness: an upper-case letter, a space and punctuation were slugged
C9_Witness ==
    /\ norm.stage = "slugified"
    /\ norm.text = <<"A", " ", "!">>
    /\ norm.separator = Underscore
    /\ norm.slug = <<"a", "_">>

\* C10: the slug steps applied to their own result, with the same
\* separator, change nothing.
C10_SlugFixedPoint ==
    norm.stage = "again" => norm.again = norm.slug

\* C10 witness: a text the slug steps changed was slugged twice
C10_Witness ==
    /\ norm.stage = "again"
    /\ norm.text = <<"U0130", " ", "!">>
    /\ norm.slug = <<"i", "-">>
    /\ norm.again = norm.slug

\* what one character of a translated text leaves in the slug: a space
\* leaves the separator, an ASCII letter its lower-case form, a digit, "-"
\* or "_" itself, U+0130 the "i" of its lower-case form, any other nothing
C11_CharOutcome(c, separator) ==
    CASE c = " " -> separator
      [] c = "A" -> <<"a">>
      [] c = "H" -> <<"h">>
      [] c = "W" -> <<"w">>
      [] c = "U0130" -> <<"i">>
      [] c \in SlugChars -> <<c>>
      [] OTHER -> <<>>

RECURSIVE C11_Outcome(_, _)
C11_Outcome(s, separator) ==
    IF s = <<>> THEN <<>>
    ELSE C11_CharOutcome(Head(s), separator)
            \o C11_Outcome(Tail(s), separator)

\* C11: the slug of a translated text is the text lower-cased, then every
\* space replaced by the separator, then every character that is not an
\* ASCII letter, an ASCII digit, "-" or "_" deleted, the rest kept in
\* order: character by character, nothing collapsed and nothing trimmed.
\* "Hello, World!!" with "-" gives "hello-world" and two adjacent spaces
\* give two adjacent separators.
C11_SlugSteps ==
    norm.stage \in {"slugified", "again"}
       => /\ norm.slug = C11_Outcome(norm.text, norm.separator)
          /\ (norm.text = HelloWorld /\ norm.separator = Dash)
                => norm.slug = <<"h", "e", "l", "l", "o", "-",
                                 "w", "o", "r", "l", "d">>
          /\ norm.text = TwoSpaces
                => norm.slug = <<"a">> \o norm.separator \o norm.separator
                                    \o <<"b">>

\* C11 witness: a text with two adjacent spaces and a trailing space was
\* slugged, or "Hello, World!!" was
C11_Witness ==
    /\ norm.stage = "slugified"
    /\ \/ /\ norm.text = <<" ", " ", " ">>
          /\ norm.slug = <<"_", "_", "_">>
       \/ /\ norm.text = HelloWorld
          /\ norm.separator = Dash
          /\ Len(norm.slug) = 11

\* the buttons whose branch of button_callback returns None
OneShotButtons == {"retranslate", "copy_slug", "reset_preferences"}

\* C12: a press of retranslate, copy_slug or reset_preferences, by a user
\* whose conversation is IDLE or AWAITING_SEPARATOR, leaves that user's
\* conversation state as it was: a step keeps the state of u or is no such
\* press by u.
C12_OneShotButtonsKeepState ==
    [][\A u \in Users, d \in OneShotButtons :
          \/ conversations'[u] = conversations[u]
          \/ ~ConvUpdate(u, CallbackQuery(d))]_vars

\* C12 witness: a user who was awaiting a separator pressed Reset
\* Preferences and is still awaiting it
C12_Witness ==
    \E u \in Users :
       /\ conversations[u] = AWAITING_SEPARATOR
       /\ reply = Reply(u, "reset_done")

\* C13: the first text message of a user without a session creates the
\* session {"separator": "-"}; a text message of a user who has a session
\* never replaces it: when it arrives the session stays as it is, and when
\* its translation completes the stored separator and the earlier history
\* entries are kept.
C13_GetOrCreate ==
    [][/\ \A t \in HeadlineTexts :
             (conversations[CallUser] = IDLE /\ CallUpdate(Text(t)))
                => IF CallUser \in DOMAIN user_data
                   THEN user_data'[CallUser] = user_data[CallUser]
                   ELSE user_data'[CallUser] = [separator |-> Dash]
       /\ \A i \in 1..MaxCalls, t \in ConvTranslatedTexts :
             translate_and_format(CallUser, i, t)
                => /\ user_data'[CallUser].separator
                          = user_data[CallUser].separator
                   /\ SubSeq(user_data'[CallUser].history, 1,
                             Len(HistoryOf(CallUser)))
                          = HistoryOf(CallUser)]_vars

\* C13 witness: a message has just arrived from a user whose session holds
\* the separator "_" and one history entry
C13_Witness ==
    /\ reply = Reply(CallUser, "none")
    /\ inflight[CallUser] # <<>>
    /\ CallUser \in DOMAIN user_data
    /\ user_data[CallUser].separator = Underscore
    /\ Len(HistoryOf(CallUser)) = 1

\* o is t without the whitespace at its two ends
C14_StrippedOf(o, t) ==
    \E a \in 0..Len(t), b \in 0..Len(t) :
       /\ a <= b
       /\ o = SubSeq(t, a + 1, b)
       /\ \A k \in (1..a) \cup ((b + 1)..Len(t)) : t[k] \in Whitespace
       /\ o = <<>> \/ (o[1] \notin Whitespace /\ o[Len(o)] \notin Whitespace)

\* C14: handle_message takes the message text stripped of surrounding
\* whitespace and reads the user's stored separator; when the translation
\* succeeds exactly one entry is appended to the user's history, whose
\* original is the stripped text and whose slug is the slug of the
\* translation with the separator read; the reply carries the same slug,
\* and the history is one entry longer.
C14_OneEntryPerMessage ==
    [][/\ \A t \in HeadlineTexts :
             (conversations[CallUser] = IDLE /\ CallUpdate(Text(t)))
                => /\ Len(inflight'[CallUser]) = Len(inflight[CallUser]) + 1
                   /\ LET call == inflight'[CallUser][Len(inflight'[CallUser])]
                      IN  /\ C14_StrippedOf(call.headline, t)
                          /\ call.separator = user_data'[CallUser].separator
                   /\ HistoryOf(CallUser)' = HistoryOf(CallUser)
       /\ \A i \in 1..MaxCalls, t \in ConvTranslatedTexts :
             translate_and_format(CallUser, i, t)
                => LET call == inflight[CallUser][i]
                       before == HistoryOf(CallUser)
                       after == user_data'[CallUser].history
                       slug == C11_Outcome(t, call.separator)
                   IN  /\ after = Append(before, [original |-> call.headline,
                                                  slug |-> slug])
                       /\ reply'.kind = "slug"
                       /\ reply'.to = CallUser
                       /\ reply'.text = slug
                       /\ Len(inflight'[CallUser])
                             = Len(inflight[CallUser]) - 1]_vars

\* C14 witness: the headline " x<TAB>" was sent while the separator was
\* "_" and translated after the separator had been changed to "-": the
\* entry and the reply hold the headline "x" and the slug with "_"
C14_Witness ==
    /\ reply.kind = "slug"
    /\ reply.text = <<"a", "_", "b">>
    /\ CallUser \in DOMAIN user_data
    /\ user_data[CallUser].separator = Dash
    /\ HistoryOf(CallUser) # <<>>
    /\ HistoryOf(CallUser)[Len(HistoryOf(CallUser))]
          = [original |-> <<"x">>, slug |-> <<"a", "_", "b">>]

\* C15: set_separator never fails on a missing session: for every user in
\* AWAITING_SEPARATOR who sends "-" or "_", with or without a session (a
\* user can get there by /settings and Change Separator without ever
\* sending a headline), no exception is raised, the separator is stored
\* and the conversation ends in IDLE.
C15_SetSeparatorNeverFails ==
    [][\A u \in Users, t \in Separators :
          (conversations[u] = AWAITING_SEPARATOR /\ ConvUpdate(u, Text(t)))
             => /\ reply'.kind # "KeyError"
                /\ reply' = [Reply(u, "separator_set") EXCEPT !.text = t]
                /\ u \in DOMAIN user_data'
                /\ user_data'[u].separator = t
                /\ conversations'[u] = IDLE]_vars

\* how many entries of the history have the original h, and how many
\* suspended calls the headline h
C16_Stored(u, h) ==
    Cardinality({k \in DOMAIN HistoryOf(u) : HistoryOf(u)[k].original = h})
C16_Suspended(u, h) ==
    Cardinality({k \in DOMAIN inflight[u] : inflight[u][k].headline = h})

\* C16: when text messages of one user are handled with their steps
\* interleaved at the suspension points and the translations succeed, no
\* history update is lost: a message that arrives leaves the history and
\* the suspended calls as they are, and a translation that completes moves
\* its headline, and no other, from the suspended calls to the history,
\* whose earlier entries stay.  So after both of two overlapping messages
\* are translated the history holds both entries, each exactly once.
C16_NoLostUpdate ==
    [][/\ \A t \in HeadlineTexts :
             (conversations[CallUser] = IDLE /\ CallUpdate(Text(t)))
                => /\ HistoryOf(CallUser)' = HistoryOf(CallUser)
                   /\ SubSeq(inflight'[CallUser], 1, Len(inflight[CallUser]))
                         = inflight[CallUser]
       /\ \A i \in 1..MaxCalls, t \in ConvTranslatedTexts :
             translate_and_format(CallUser, i, t)
                => /\ \A h \in {Strip(x) : x \in HeadlineTexts} :
                         /\ C16_Stored(CallUser, h)' + C16_Suspended(CallUser, h)'
                               = C16_Stored(CallUser, h)
                                    + C16_Suspended(CallUser, h)
                         /\ C16_Stored(CallUser, h)'
                               = C16_Stored(CallUser, h)
                                   + (IF inflight[CallUser][i].headline = h
                                      THEN 1 ELSE 0)
                   /\ \A k \in DOMAIN HistoryOf(CallUser) :
                         HistoryOf(CallUser)'[k] = HistoryOf(CallUser)[k]]_vars

\* C16 witness: the message that created the session is still suspended
\* at line 96 while a later message of the same user has been translated
\* and stored: the two handler runs overlap
C16_Witness ==
    /\ Len(inflight[CallUser]) = 1
    /\ inflight[CallUser][1].created
    /\ inflight[CallUser][1].headline = <<"_">>
    /\ reply.kind = "slug"
    /\ Len(HistoryOf(CallUser)) = 1
    /\ HistoryOf(CallUser)[1].original = <<"x">>

\* C17: a text sent by a user who is awaiting a separator (the press of
\* customize or change_separator, for which button_callback returned
\* AWAITING_SEPARATOR, was the last update) is handled by set_separator and
\* by no other handler, under the handlers as main() registers them: no
\* call of handle_message starts, so nothing is translated, and the reply is
\* one of set_separator, not a slug.
C17_TextWhileAwaiting ==
    [][\A u \in Users, t \in MsgTexts :
          (/\ reply \in {Reply(u, "send_separator"),
                         Reply(u, "enter_separator")}
           /\ Update(u, Text(t)))
             => /\ inflight'[u] = inflight[u]
                /\ reply'.to = u
                /\ reply'.kind \in {"separator_set", "invalid_separator",
                                    "KeyError"}]_vars

\* the commands and buttons whose handlers only read the store
ReadOnlyUpdates ==
    {Command(c) : c \in {"start", "help", "settings", "history"}}
       \cup {CallbackQuery(d) : d \in {"retranslate", "copy_slug",
                                       "customize", "change_separator"}}

\* C18: /start, /help, /settings, /history and the buttons retranslate,
\* copy_slug, customize and change_separator leave the store as it is: no
\* session is created, and no user's separator or history changes: a step
\* keeps the store or is none of these events.
C18_ReadOnlyEvents ==
    [][\/ user_data' = user_data
       \/ \A u \in Users, upd \in ReadOnlyUpdates : ~Update(u, upd)]_vars

\* C18 witness: a user without a session pressed Change Separator and has
\* no session, while the other user's session holds a history
C18_Witness ==
    \E u, v \in Users :
       /\ reply = Reply(u, "enter_separator")
       /\ u \notin DOMAIN user_data
       /\ HistoryOf(v) # <<>>

====
